---- MODULE Spec2Model ----
(***************************************************************************)
(* Clinical patient matching: the reference-set loader, the candidate      *)
(* index, the strategy chain of ClinicalPatientMatcher.match_patient and   *)
(* the batch processing of ClinicalMatchingService.                         *)
(*                                                                         *)
(* A Python str is modelled as a sequence of one-character strings, so     *)
(* that normalisation, parsing and key building work on characters.        *)
(* Confidence scores are integers in hundredths (0.72 is 72); date         *)
(* similarity weights are integers in two-hundredths (0.05 is 10).         *)
(***************************************************************************)
EXTENDS Integers, Sequences, FiniteSets, TLC

(***************************************************************************)
(* Characters and the str methods the code uses                            *)
(***************************************************************************)
UpperLetters ==
    << "A", "B", "C", "D", "E", "F", "G", "H", "I", "J", "K", "L", "M",
       "N", "O", "P", "Q", "R", "S", "T", "U", "V", "W", "X", "Y", "Z" >>

LowerLetters ==
    << "a", "b", "c", "d", "e", "f", "g", "h", "i", "j", "k", "l", "m",
       "n", "o", "p", "q", "r", "s", "t", "u", "v", "w", "x", "y", "z" >>

Digits ==
    << "0", "1", "2", "3", "4", "5", "6", "7", "8", "9" >>

\* position of the first c in seq, 0 when absent
RECURSIVE IndexFrom(_, _, _)
IndexFrom(c, seq, i) ==
    IF i > Len(seq) THEN 0
    ELSE IF seq[i] = c THEN i
    ELSE IndexFrom(c, seq, i + 1)

IndexOf(c, seq) ==
    IndexFrom(c, seq, 1)

to_lower ==
    [c \in {UpperLetters[i] : i \in 1..26} |-> LowerLetters[IndexOf(c, UpperLetters)]]

to_upper ==
    [c \in {LowerLetters[i] : i \in 1..26} |-> UpperLetters[IndexOf(c, LowerLetters)]]

digit_value ==
    [c \in {Digits[i] : i \in 1..10} |-> IndexOf(c, Digits) - 1]

lower_char(c) ==
    IF c \in DOMAIN to_lower THEN to_lower[c] ELSE c

upper_char(c) ==
    IF c \in DOMAIN to_upper THEN to_upper[c] ELSE c

\* str.lower()
lower(s) ==
    [i \in 1..Len(s) |-> lower_char(s[i])]

\* str.upper()
upper(s) ==
    [i \in 1..Len(s) |-> upper_char(s[i])]

\* the characters matched by \s
isspace(c) ==
    c \in {" ", "\t", "\n"}

isdigit_char(c) ==
    c \in DOMAIN digit_value

\* str.isdigit(): non-empty and all digits
isdigit(s) ==
    Len(s) > 0 /\ \A i \in 1..Len(s) : isdigit_char(s[i])

RECURSIVE lstrip(_)
lstrip(s) ==
    IF s # <<>> /\ isspace(Head(s)) THEN lstrip(Tail(s)) ELSE s

RECURSIVE rstrip(_)
rstrip(s) ==
    IF s # <<>> /\ isspace(s[Len(s)]) THEN rstrip(SubSeq(s, 1, Len(s) - 1)) ELSE s

\* str.strip()
strip(s) ==
    rstrip(lstrip(s))

\* int(s) of a digit string
RECURSIVE int(_)
int(s) ==
    IF s = <<>> THEN 0
    ELSE 10 * int(SubSeq(s, 1, Len(s) - 1)) + digit_value[s[Len(s)]]

\* decimal digits of n, at least width characters, zero padded
RECURSIVE zfill(_, _)
zfill(n, width) ==
    IF n < 10 /\ width <= 1 THEN << Digits[n + 1] >>
    ELSE zfill(n \div 10, width - 1) \o << Digits[(n % 10) + 1] >>

\* str.split(sep) for a one-character separator
RECURSIVE split(_, _)
split(s, sep) ==
    LET i == IndexOf(sep, s) IN
    IF i = 0 THEN << s >>
    ELSE << SubSeq(s, 1, i - 1) >> \o split(SubSeq(s, i + 1, Len(s)), sep)

\* sep.join(parts)
RECURSIVE join(_, _)
join(parts, sep) ==
    IF parts = <<>> THEN <<>>
    ELSE IF Len(parts) = 1 THEN parts[1]
    ELSE parts[1] \o << sep >> \o join(Tail(parts), sep)

(***************************************************************************)
(* utils/normalizers.py                                                    *)
(***************************************************************************)
\* re.sub(r'\s+', '', s.lower())
normalize_string(s) ==
    IF s = <<>> THEN <<>>
    ELSE SelectSeq(lower(s), LAMBDA c : ~isspace(c))

is_leap(y) ==
    (y % 4 = 0 /\ y % 100 # 0) \/ y % 400 = 0

days_in_month(y, m) ==
    IF m = 2 THEN (IF is_leap(y) THEN 29 ELSE 28)
    ELSE IF m \in {4, 6, 9, 11} THEN 30 ELSE 31

\* the four formats of normalize_date, as separator and field order
formats ==
    << [sep |-> "-", fields |-> << "Y", "m", "d" >>],
       [sep |-> "/", fields |-> << "m", "d", "Y" >>],
       [sep |-> "/", fields |-> << "d", "m", "Y" >>],
       [sep |-> "/", fields |-> << "Y", "m", "d" >>] >>

\* does part match the strptime directive: %Y is \d\d\d\d, %m is
\* 1[0-2]|0[1-9]|[1-9], %d is 3[01]|[12]\d|0[1-9]|[1-9]| [1-9]
directive_matches(d, part) ==
    CASE d = "Y" -> Len(part) = 4 /\ isdigit(part)
      [] d = "m" -> Len(part) \in {1, 2} /\ isdigit(part) /\ int(part) \in 1..12
      [] d = "d" -> \/ Len(part) \in {1, 2} /\ isdigit(part) /\ int(part) \in 1..31
                    \/ Len(part) = 2 /\ part[1] = " " /\ isdigit_char(part[2])
                       /\ part[2] # "0"

directive_value(d, part) ==
    IF d = "d" /\ part[1] = " " THEN int(Tail(part)) ELSE int(part)

\* datetime.strptime(date_str, fmt): the date <<year, month, day>>, or <<>>
\* where strptime raises ValueError
strptime(date_str, fmt) ==
    LET parts == split(date_str, fmt.sep) IN
    IF Len(parts) # 3 \/ \E i \in 1..3 : ~directive_matches(fmt.fields[i], parts[i])
    THEN <<>>
    ELSE LET val(d) == directive_value(d, parts[IndexOf(d, fmt.fields)])
             y == val("Y")
             m == val("m")
             d == val("d")
         IN IF y < 1 \/ d > days_in_month(y, m) THEN <<>> ELSE << y, m, d >>

\* dt.strftime('%Y-%m-%d'); the C library does not pad a year below 1000
strftime(dt) ==
    zfill(dt[1], 1) \o << "-" >> \o zfill(dt[2], 2) \o << "-" >> \o zfill(dt[3], 2)

\* the loop over formats from the i-th format on: the first format that
\* parses gives the result, and the input is returned when none does
RECURSIVE normalize_date_from(_, _)
normalize_date_from(date_str, i) ==
    IF i > Len(formats) THEN date_str
    ELSE LET dt == strptime(date_str, formats[i]) IN
         IF dt # <<>> THEN strftime(dt) ELSE normalize_date_from(date_str, i + 1)

normalize_date(date_str) ==
    IF date_str = <<>> THEN <<>> ELSE normalize_date_from(date_str, 1)

male_variants ==
    { << "M" >>, << "M", "A", "L", "E" >>,
      << "M", "A", "S", "C", "H", "I", "O" >>, << "U", "O", "M", "O" >>,
      << "M", "A", "N" >> }

female_variants ==
    { << "F" >>, << "F", "E", "M", "A", "L", "E" >>,
      << "F", "E", "M", "M", "I", "N", "A" >>, << "D", "O", "N", "N", "A" >>,
      << "W", "O", "M", "A", "N" >> }

MALE ==
    << "M", "A", "L", "E" >>

FEMALE ==
    << "F", "E", "M", "A", "L", "E" >>

normalize_gender(gender) ==
    IF gender = <<>> THEN <<>>
    ELSE LET gender_normalized == strip(upper(gender)) IN
         IF gender_normalized \in male_variants THEN MALE
         ELSE IF gender_normalized \in female_variants THEN FEMALE
         ELSE gender_normalized

(***************************************************************************)
(* utils/date_similarity.py                                                *)
(***************************************************************************)
\* similar_digits.get(d, [])
similar_digits(d) ==
    CASE d = "0" -> {"0", "8", "o", "O"}
      [] d = "1" -> {"1", "l", "I", "|"}
      [] d = "2" -> {"2", "z", "Z"}
      [] d = "3" -> {"3", "8"}
      [] d = "4" -> {"4", "A"}
      [] d = "5" -> {"5", "S", "s"}
      [] d = "6" -> {"6", "G"}
      [] d = "7" -> {"7", "T"}
      [] d = "8" -> {"8", "0", "3", "B"}
      [] d = "9" -> {"9", "g", "q"}
      [] OTHER -> {}

\* 0.20, 0.20, 0.15, 0.15, 0.10, 0.10, 0.05, 0.05 in two-hundredths
position_weights ==
    << 40, 40, 30, 30, 20, 20, 10, 10 >>

RECURSIVE SumTo(_, _)
SumTo(f, n) ==
    IF n = 0 THEN 0 ELSE SumTo(f, n - 1) + f[n]

\* similarity in two-hundredths: 200 is 1.0
calculate_digit_similarity(digits1, digits2) ==
    IF Len(digits1) # Len(digits2) \/ Len(digits1) # 8 THEN 0
    ELSE LET credit == [i \in 1..8 |->
                 IF digits1[i] = digits2[i] THEN position_weights[i]
                 ELSE IF \/ digits1[i] \in similar_digits(digits2[i])
                         \/ digits2[i] \in similar_digits(digits1[i])
                      THEN position_weights[i] \div 2
                      ELSE 0]
             total_score == SumTo(credit, 8)
             max_possible_score == SumTo(position_weights, 8)
         IN (200 * total_score) \div max_possible_score

calculate_date_similarity(date1, date2) ==
    IF date1 = <<>> \/ date2 = <<>> THEN 0
    ELSE LET norm_date1 == normalize_date(date1)
             norm_date2 == normalize_date(date2)
             digits1 == SelectSeq(norm_date1, LAMBDA c : c # "-")
             digits2 == SelectSeq(norm_date2, LAMBDA c : c # "-")
         IN IF norm_date1 = norm_date2 THEN 200
            ELSE IF Len(digits1) # Len(digits2) \/ Len(digits1) # 8 THEN 0
            ELSE calculate_digit_similarity(digits1, digits2)

\* the default threshold 0.8 of the first is_fuzzy_date_match, in two-hundredths
threshold ==
    160

\* the first definition of is_fuzzy_date_match in the module, which the
\* second definition of the same name further down replaces at import
is_fuzzy_date_match_shadowed(date1, date2) ==
    calculate_date_similarity(date1, date2) >= threshold

\* the seven formats of normalize_date_for_comparison; "" is %Y%m%d
comparison_formats ==
    << [sep |-> "-", fields |-> << "Y", "m", "d" >>],
       [sep |-> "/", fields |-> << "d", "m", "Y" >>],
       [sep |-> "/", fields |-> << "m", "d", "Y" >>],
       [sep |-> "-", fields |-> << "d", "m", "Y" >>],
       [sep |-> "-", fields |-> << "m", "d", "Y" >>],
       [sep |-> "",  fields |-> << "Y", "m", "d" >>],
       [sep |-> ".", fields |-> << "d", "m", "Y" >>] >>

\* strptime(date_str, '%Y%m%d'): four characters of year, then the month,
\* whose two-digit alternatives are tried before the one-digit one, then
\* the day on the rest
strptime_compact(date_str) ==
    LET n == Len(date_str)
        parts(mlen) == << SubSeq(date_str, 1, 4), SubSeq(date_str, 5, 4 + mlen),
                          SubSeq(date_str, 5 + mlen, n) >>
        fits(mlen) == /\ n >= 5 + mlen
                      /\ directive_matches("Y", parts(mlen)[1])
                      /\ directive_matches("m", parts(mlen)[2])
                      /\ directive_matches("d", parts(mlen)[3])
        date(mlen) == LET y == int(parts(mlen)[1])
                          m == int(parts(mlen)[2])
                          d == directive_value("d", parts(mlen)[3])
                      IN IF y < 1 \/ d > days_in_month(y, m) THEN <<>>
                         ELSE << y, m, d >>
    IN IF fits(2) THEN date(2) ELSE IF fits(1) THEN date(1) ELSE <<>>

\* the loop over the formats from the i-th on; <<>> is None
RECURSIVE normalize_date_for_comparison_from(_, _)
normalize_date_for_comparison_from(date_str, i) ==
    IF i > Len(comparison_formats) THEN <<>>
    ELSE LET fmt == comparison_formats[i]
             dt == IF fmt.sep = "" THEN strptime_compact(date_str)
                   ELSE strptime(date_str, fmt)
         IN IF dt # <<>> THEN dt
            ELSE normalize_date_for_comparison_from(date_str, i + 1)

normalize_date_for_comparison(date_str) ==
    IF strip(date_str) = <<>> THEN <<>>
    ELSE normalize_date_for_comparison_from(strip(date_str), 1)

\* datetime.toordinal: the days from 0001-01-01, which is day 1
toordinal(dt) ==
    LET y == dt[1] - 1
        before_month == [m \in 1..12 |-> days_in_month(dt[1], m)]
    IN 365 * y + (y \div 4) - (y \div 100) + (y \div 400)
       + SumTo(before_month, dt[2] - 1) + dt[3]

\* the default tolerance_days of is_fuzzy_date_match
tolerance_days ==
    2

\* the definition of is_fuzzy_date_match that importers of the module get
is_fuzzy_date_match(date1, date2) ==
    IF date1 = <<>> \/ date2 = <<>> THEN FALSE
    ELSE IF strip(date1) = strip(date2) THEN TRUE
    ELSE LET dt1 == normalize_date_for_comparison(date1)
             dt2 == normalize_date_for_comparison(date2)
         IN IF dt1 = <<>> \/ dt2 = <<>> THEN FALSE
            ELSE LET diff == toordinal(dt1) - toordinal(dt2)
                 IN (IF diff < 0 THEN -diff ELSE diff) <= tolerance_days

(***************************************************************************)
(* utils/italian_cf.py                                                     *)
(***************************************************************************)
\* None
None ==
    << "None" >>

extract_gender_from_codice_fiscale(ssn) ==
    IF ssn = <<>> \/ Len(ssn) < 11 THEN None
    ELSE LET day_str == SubSeq(ssn, 10, 11) IN
         IF ~isdigit(day_str) THEN None
         ELSE LET day == int(day_str) IN
              IF 1 <= day /\ day <= 31 THEN MALE
              ELSE IF 41 <= day /\ day <= 71 THEN FEMALE
              ELSE None

is_codice_fiscale_gender_consistent(cf, declared_gender) ==
    LET cf_gender == extract_gender_from_codice_fiscale(cf) IN
    IF cf_gender = None THEN TRUE
    ELSE cf_gender = strip(upper(declared_gender))

(***************************************************************************)
(* patient_info_updater.py                                                 *)
(***************************************************************************)
\* int(s) of a string: surrounding whitespace is dropped and one sign is
\* accepted before the digits; ValueError otherwise.  Underscores between
\* digits take three characters at least and the day field has two.
int_literal(s) ==
    LET t == strip(s)
        digits == IF t # <<>> /\ Head(t) \in { "+", "-" } THEN Tail(t) ELSE t
    IN IF isdigit(digits)
       THEN [raised |-> FALSE,
             value |-> IF Head(t) = "-" THEN 0 - int(digits) ELSE int(digits)]
       ELSE [raised |-> TRUE, value |-> 0]

\* extract_gender_from_codice_fiscale of the updater script
updater_extract_gender_from_codice_fiscale(ssn) ==
    IF ssn = <<>> \/ Len(ssn) < 11 THEN None
    ELSE LET day_number == int_literal(SubSeq(ssn, 10, 11)) IN
         IF day_number.raised THEN None
         ELSE IF 41 <= day_number.value /\ day_number.value <= 71 THEN FEMALE
         ELSE IF 1 <= day_number.value /\ day_number.value <= 31 THEN MALE
         ELSE None

(***************************************************************************)
(* utils/key_builders.py                                                   *)
(***************************************************************************)
create_exact_match_key(family_name, given_name, sex, dob) ==
    join(<< normalize_string(family_name), normalize_string(given_name),
            normalize_gender(sex), normalize_date(dob) >>, "|")

create_loose_match_key(family_name, given_name, dob) ==
    join(<< normalize_string(family_name), normalize_string(given_name),
            normalize_date(dob) >>, "|")

create_name_only_match_key(family_name, given_name) ==
    join(<< normalize_string(family_name), normalize_string(given_name) >>, "|")

create_flipped_match_key(family_name, given_name, sex, dob) ==
    join(<< normalize_string(given_name), normalize_string(family_name),
            normalize_gender(sex), normalize_date(dob) >>, "|")

create_flipped_loose_match_key(family_name, given_name, dob) ==
    join(<< normalize_string(given_name), normalize_string(family_name),
            normalize_date(dob) >>, "|")

create_flipped_name_only_key(family_name, given_name) ==
    join(<< normalize_string(given_name), normalize_string(family_name) >>, "|")

\* the key types in the order of the dict create_composite_keys returns
key_types ==
    << "exact", "loose", "name_only",
       "flipped_exact", "flipped_loose", "flipped_name_only" >>

create_composite_keys(family_name, given_name, sex, dob) ==
    [exact             |-> create_exact_match_key(family_name, given_name, sex, dob),
     loose             |-> create_loose_match_key(family_name, given_name, dob),
     name_only         |-> create_name_only_match_key(family_name, given_name),
     flipped_exact     |-> create_flipped_match_key(family_name, given_name, sex, dob),
     flipped_loose     |-> create_flipped_loose_match_key(family_name, given_name, dob),
     flipped_name_only |-> create_flipped_name_only_key(family_name, given_name)]

(***************************************************************************)
(* core/data_models.py                                                     *)
(***************************************************************************)
\* d.get(k, '')
get(d, k) ==
    IF k \in DOMAIN d THEN d[k] ELSE <<>>

\* the fields of the dataclass PatientRecord; the first four have no default
PatientRecordFields ==
    { "family_name", "given_name", "sex", "dob", "pms_id", "practice_pms_id",
      "dicom_id", "middle_name", "custom_identifier", "middle_initial", "ssn" }

PatientRecordRequired ==
    { "family_name", "given_name", "sex", "dob" }

\* PatientRecord(**kwargs) raises TypeError on a keyword that is not a field
\* and on a missing field without default
PatientRecordRaises(kwargs) ==
    ~ (DOMAIN kwargs \subseteq PatientRecordFields
       /\ PatientRecordRequired \subseteq DOMAIN kwargs)

\* PatientRecord(**kwargs), optional fields default to None
PatientRecord(kwargs) ==
    [f \in PatientRecordFields |-> IF f \in DOMAIN kwargs THEN kwargs[f] ELSE None]

\* the same table with strict comparisons
get_confidence_level_strict(confidence_score) ==
    IF confidence_score > 100 THEN "GOLD_STANDARD"
    ELSE IF confidence_score > 95 THEN "HIGH_CONFIDENCE"
    ELSE IF confidence_score > 80 THEN "MODERATE_CONFIDENCE"
    ELSE IF confidence_score > 70 THEN "ACCEPTABLE_CONFIDENCE"
    ELSE IF confidence_score > 50 THEN "MANUAL_REVIEW"
    ELSE "NO_MATCH"

\* MatchResult.get_confidence_level
get_confidence_level(confidence_score) ==
    IF confidence_score >= 100 THEN "GOLD_STANDARD"
    ELSE IF confidence_score >= 95 THEN "HIGH_CONFIDENCE"
    ELSE IF confidence_score >= 80 THEN "MODERATE_CONFIDENCE"
    ELSE IF confidence_score >= 70 THEN "ACCEPTABLE_CONFIDENCE"
    ELSE IF confidence_score >= 50 THEN "MANUAL_REVIEW"
    ELSE "NO_MATCH"

\* SessionStatistics()
SessionStatistics ==
    [total_processed |-> 0, auto_matched |-> 0, manual_review_required |-> 0,
     no_matches |-> 0, gold_standard_matches |-> 0, high_confidence_matches |-> 0,
     moderate_confidence_matches |-> 0, acceptable_confidence_matches |-> 0,
     gender_corrections |-> 0, date_corrections |-> 0, name_flips |-> 0,
     partial_name_matches |-> 0, pms_gender_errors |-> 0]

(***************************************************************************)
(* core/confidence_scoring.py                                              *)
(***************************************************************************)
\* factors that all raise the confidence
correction_factors_unsigned ==
    [gender_mismatch |-> 5, date_correction |-> 3, name_flip |-> 2,
     partial_match |-> 10, pms_gender_error |-> 2,
     codice_fiscale_validation |-> 5]

\* ConfidenceCalculator.correction_factors, in hundredths
correction_factors ==
    [gender_mismatch |-> -5, date_correction |-> -3, name_flip |-> -2,
     partial_match |-> -10, pms_gender_error |-> 2,
     codice_fiscale_validation |-> 5]

RECURSIVE SumFactors(_)
SumFactors(types) ==
    IF types = {} THEN 0
    ELSE LET t == CHOOSE t \in types : TRUE
         IN correction_factors[t] + SumFactors(types \ {t})

\* the factor of every flag that is set and is a key of correction_factors
\* is added to the base, and the sum is clamped to [0.0, 1.0]
calculate_adjusted_confidence(base_confidence, corrections) ==
    LET applied == { t \in DOMAIN corrections :
                        corrections[t] /\ t \in DOMAIN correction_factors }
        adjusted_confidence == base_confidence + SumFactors(applied)
    IN IF adjusted_confidence > 100 THEN 100
       ELSE IF adjusted_confidence < 0 THEN 0
       ELSE adjusted_confidence

requires_manual_review(confidence_score) ==
    confidence_score < 70

(***************************************************************************)
(* core/patient_matcher.py                                                 *)
(***************************************************************************)
\* the list with the gender-loose strategy moved in front of the exact one
strategies_gender_loose_first ==
    << [name |-> "EXACT_GENDER_LOOSE",   confidence |-> 98,  priority |-> 2],
       [name |-> "GOLD_STANDARD",        confidence |-> 100, priority |-> 1],
       [name |-> "FLIPPED_EXACT",        confidence |-> 97,  priority |-> 3],
       [name |-> "FLIPPED_GENDER_LOOSE", confidence |-> 90,  priority |-> 4],
       [name |-> "PARTIAL_EXACT",        confidence |-> 85,  priority |-> 5],
       [name |-> "PARTIAL_GENDER_LOOSE", confidence |-> 75,  priority |-> 6],
       [name |-> "EXACT_FUZZY_DOB",      confidence |-> 72,  priority |-> 7],
       [name |-> "FLIPPED_FUZZY_DOB",    confidence |-> 65,  priority |-> 8],
       [name |-> "PARTIAL_FUZZY_DOB",    confidence |-> 55,  priority |-> 9] >>

\* ClinicalPatientMatcher._initialize_strategies
strategies ==
    << [name |-> "GOLD_STANDARD",        confidence |-> 100, priority |-> 1],
       [name |-> "EXACT_GENDER_LOOSE",   confidence |-> 98,  priority |-> 2],
       [name |-> "FLIPPED_EXACT",        confidence |-> 97,  priority |-> 3],
       [name |-> "FLIPPED_GENDER_LOOSE", confidence |-> 90,  priority |-> 4],
       [name |-> "PARTIAL_EXACT",        confidence |-> 85,  priority |-> 5],
       [name |-> "PARTIAL_GENDER_LOOSE", confidence |-> 75,  priority |-> 6],
       [name |-> "EXACT_FUZZY_DOB",      confidence |-> 72,  priority |-> 7],
       [name |-> "FLIPPED_FUZZY_DOB",    confidence |-> 65,  priority |-> 8],
       [name |-> "PARTIAL_FUZZY_DOB",    confidence |-> 55,  priority |-> 9] >>

\* token in strategy_name, for the strategy names above
contains(strategy_name, token) ==
    strategy_name \in
        CASE token = "FLIPPED" ->
               {"FLIPPED_EXACT", "FLIPPED_GENDER_LOOSE", "FLIPPED_FUZZY_DOB"}
          [] token = "PARTIAL" ->
               {"PARTIAL_EXACT", "PARTIAL_GENDER_LOOSE", "PARTIAL_FUZZY_DOB"}
          [] token = "GENDER_LOOSE" ->
               {"EXACT_GENDER_LOOSE", "FLIPPED_GENDER_LOOSE", "PARTIAL_GENDER_LOOSE"}
          [] token = "FUZZY_DOB" ->
               {"EXACT_FUZZY_DOB", "FLIPPED_FUZZY_DOB", "PARTIAL_FUZZY_DOB"}

select_match_key(strategy, keys) ==
    IF contains(strategy.name, "FLIPPED")
    THEN IF contains(strategy.name, "GENDER_LOOSE") \/ contains(strategy.name, "FUZZY_DOB")
         THEN keys.flipped_loose
         ELSE keys.flipped_exact
    ELSE IF contains(strategy.name, "PARTIAL") THEN None
    ELSE IF contains(strategy.name, "FUZZY_DOB") THEN keys.name_only
    ELSE IF contains(strategy.name, "GENDER_LOOSE") THEN keys.loose
    ELSE keys.exact

identify_corrections(dtx_record, pms_data, strategy) ==
    LET dtx_sex == normalize_gender(get(dtx_record, "sex"))
        pms_sex == normalize_gender(get(pms_data, "gender"))
        dtx_dob == normalize_date(get(dtx_record, "dob"))
        pms_dob == normalize_date(get(pms_data, "dob"))
        cf == get(pms_data, "ssn")
        gender_differs == dtx_sex # <<>> /\ pms_sex # <<>> /\ dtx_sex # pms_sex
    IN [is_gender_mismatch  |-> gender_differs,
        is_date_correction  |-> /\ dtx_dob # <<>> /\ pms_dob # <<>> /\ dtx_dob # pms_dob
                                /\ is_fuzzy_date_match(dtx_dob, pms_dob),
        is_name_flip        |-> contains(strategy.name, "FLIPPED"),
        is_partial_match    |-> contains(strategy.name, "PARTIAL"),
        is_pms_gender_error |-> /\ gender_differs /\ cf # <<>>
                                /\ ~is_codice_fiscale_gender_consistent(cf, pms_sex)]

\* a no-match result that asks for manual review
NoMatchResultForReview ==
    [match_found |-> FALSE, pms_data |-> <<>>, confidence_score |-> 0,
     match_type |-> "NO_MATCH", requires_manual_review |-> TRUE,
     is_gender_mismatch |-> FALSE, is_date_correction |-> FALSE,
     is_name_flip |-> FALSE, is_partial_match |-> FALSE,
     is_pms_gender_error |-> FALSE]

\* MatchResult(match_found=False, pms_data=None, confidence_score=0.0,
\* match_type=MatchType.NO_MATCH, requires_manual_review=False); pms_data is
\* the empty sequence for None and a one-element sequence otherwise
NoMatchResult ==
    [match_found |-> FALSE, pms_data |-> <<>>, confidence_score |-> 0,
     match_type |-> "NO_MATCH", requires_manual_review |-> FALSE,
     is_gender_mismatch |-> FALSE, is_date_correction |-> FALSE,
     is_name_flip |-> FALSE, is_partial_match |-> FALSE,
     is_pms_gender_error |-> FALSE]

\* the locals of an evaluation whose key is not in the index
NoFrame ==
    [strategy |-> "NO_MATCH", match_key |-> None, pms_data |-> <<>>,
     adjusted_confidence |-> 0, requires_review |-> FALSE]

\* The return statement of _evaluate_strategy for the selected record:
\* whether it raised, the MatchResult it returned otherwise, and the locals
\* computed when it ended.  PatientRecord(**pms_data) is evaluated first.
build_match_result(strategy, match_key, pms_data, corrections, adjusted_confidence) ==
    LET requires_review == requires_manual_review(adjusted_confidence)
        frame == [strategy |-> strategy.name, match_key |-> match_key,
                  pms_data |-> << pms_data >>,
                  adjusted_confidence |-> adjusted_confidence,
                  requires_review |-> requires_review]
    IN IF PatientRecordRaises(pms_data)
       THEN [raised |-> TRUE, result |-> NoMatchResult, frame |-> frame]
       ELSE [raised |-> FALSE,
             result |-> [match_found |-> TRUE,
                         pms_data |-> << PatientRecord(pms_data) >>,
                         confidence_score |-> adjusted_confidence,
                         match_type |-> strategy.name,
                         requires_manual_review |-> requires_review,
                         is_gender_mismatch |-> corrections.is_gender_mismatch,
                         is_date_correction |-> corrections.is_date_correction,
                         is_name_flip |-> corrections.is_name_flip,
                         is_partial_match |-> corrections.is_partial_match,
                         is_pms_gender_error |-> corrections.is_pms_gender_error],
             frame |-> frame]

\* the confidence of the selected record, adjusted by its corrections
score_candidate(strategy, match_key, pms_data, corrections) ==
    build_match_result(strategy, match_key, pms_data, corrections,
        calculate_adjusted_confidence(strategy.confidence, corrections))

\* the branch of _evaluate_strategy for a key of the index.  A bucket of
\* the index is a sequence: a dict is the one-element sequence, and of a
\* list the first candidate is taken.
evaluate_candidate(dtx_record, strategy, match_key, pms_data) ==
    score_candidate(strategy, match_key, pms_data,
                    identify_corrections(dtx_record, pms_data, strategy))

\* _evaluate_strategy once the key of the strategy is selected
evaluate_key(dtx_record, pms_lookup, strategy, match_key) ==
    IF match_key # None /\ match_key # <<>> /\ match_key \in DOMAIN pms_lookup
    THEN evaluate_candidate(dtx_record, strategy, match_key, pms_lookup[match_key][1])
    ELSE [raised |-> FALSE, result |-> NoMatchResult, frame |-> NoFrame]

\* One call of _evaluate_strategy
evaluate_strategy(dtx_record, pms_lookup, strategy, keys) ==
    evaluate_key(dtx_record, pms_lookup, strategy, select_match_key(strategy, keys))

update_session_stats(session_stats, match_result) ==
    LET confidence_level == get_confidence_level(match_result.confidence_score)
        inc(b) == IF b THEN 1 ELSE 0
    IN [session_stats EXCEPT
          !.manual_review_required = @ + inc(match_result.requires_manual_review),
          !.auto_matched = @ + inc(~match_result.requires_manual_review),
          !.gold_standard_matches = @ + inc(confidence_level = "GOLD_STANDARD"),
          !.high_confidence_matches = @ + inc(confidence_level = "HIGH_CONFIDENCE"),
          !.moderate_confidence_matches =
              @ + inc(confidence_level = "MODERATE_CONFIDENCE"),
          !.acceptable_confidence_matches =
              @ + inc(confidence_level = "ACCEPTABLE_CONFIDENCE"),
          !.gender_corrections = @ + inc(match_result.is_gender_mismatch),
          !.date_corrections = @ + inc(match_result.is_date_correction),
          !.name_flips = @ + inc(match_result.is_name_flip),
          !.partial_name_matches = @ + inc(match_result.is_partial_match),
          !.pms_gender_errors = @ + inc(match_result.is_pms_gender_error)]

\* the loop of match_patient over the strategies from the i-th on: it ends
\* at the first evaluation that raises or returns match_found
RECURSIVE evaluate_from(_, _, _, _)
first_match_or_next(dtx_record, pms_lookup, keys, i, e) ==
    IF e.raised \/ e.result.match_found THEN e
    ELSE evaluate_from(dtx_record, pms_lookup, keys, i + 1)

evaluate_from(dtx_record, pms_lookup, keys, i) ==
    IF i > Len(strategies)
    THEN [raised |-> FALSE, result |-> NoMatchResult, frame |-> NoFrame]
    ELSE first_match_or_next(dtx_record, pms_lookup, keys, i,
             evaluate_strategy(dtx_record, pms_lookup, strategies[i], keys))

\* a match_patient that gives up on every call but the first of a session
end_match_patient_first_only(counted, e) ==
    IF counted.total_processed > 1
    THEN [raised |-> FALSE, result |-> NoMatchResult, frame |-> NoFrame,
          session_stats |-> [counted EXCEPT !.no_matches = @ + 1]]
    ELSE IF e.raised
    THEN [raised |-> TRUE, result |-> NoMatchResult, frame |-> e.frame,
          session_stats |-> counted]
    ELSE IF e.result.match_found
    THEN [raised |-> FALSE, result |-> e.result, frame |-> e.frame,
          session_stats |-> update_session_stats(counted, e.result)]
    ELSE [raised |-> FALSE, result |-> NoMatchResult, frame |-> NoFrame,
          session_stats |-> [counted EXCEPT !.no_matches = @ + 1]]

\* match_patient after the loop has ended with e, counted being the session
\* statistics with total_processed incremented
end_match_patient(counted, e) ==
    IF e.raised
    THEN [raised |-> TRUE, result |-> NoMatchResult, frame |-> e.frame,
          session_stats |-> counted]
    ELSE IF e.result.match_found
    THEN [raised |-> FALSE, result |-> e.result, frame |-> e.frame,
          session_stats |-> update_session_stats(counted, e.result)]
    ELSE [raised |-> FALSE, result |-> NoMatchResult, frame |-> NoFrame,
          session_stats |-> [counted EXCEPT !.no_matches = @ + 1]]

\* One call of match_patient.  The value gives whether the call raised, the
\* MatchResult it returned otherwise, the locals of the evaluation that
\* ended the loop, and the session statistics after the call.
match_patient(dtx_record, pms_lookup, session_stats) ==
    end_match_patient(
        [session_stats EXCEPT !.total_processed = @ + 1],
        evaluate_from(dtx_record, pms_lookup,
                      create_composite_keys(get(dtx_record, "family_name"),
                                            get(dtx_record, "given_name"),
                                            get(dtx_record, "sex"),
                                            get(dtx_record, "dob")),
                      1))

(***************************************************************************)
(* core/clinical_service.py                                                *)
(***************************************************************************)
\* the corrected gender and the error flag
validate_gender_with_cf(sex, ssn) ==
    IF /\ ssn # <<>>
       /\ extract_gender_from_codice_fiscale(ssn) # None
       /\ ~is_codice_fiscale_gender_consistent(ssn, sex)
    THEN [corrected_sex |-> extract_gender_from_codice_fiscale(ssn),
          is_pms_gender_error |-> TRUE]
    ELSE [corrected_sex |-> sex, is_pms_gender_error |-> FALSE]

\* the loop of _store_pms_record from the i-th key type on: a new key gets
\* the record, a key already present gets the record appended to its bucket
RECURSIVE store_pms_record_from(_, _, _, _)
store_pms_record_from(pms_lookup, keys, pms_data, i) ==
    IF i > Len(key_types) THEN pms_lookup
    ELSE LET key == keys[key_types[i]]
             stored ==
                 IF key \notin DOMAIN pms_lookup
                 THEN [k \in DOMAIN pms_lookup \cup {key} |->
                          IF k = key THEN << pms_data >> ELSE pms_lookup[k]]
                 ELSE [pms_lookup EXCEPT ![key] = Append(@, pms_data)]
         IN store_pms_record_from(stored, keys, pms_data, i + 1)

store_pms_record(pms_lookup, keys, pms_data) ==
    store_pms_record_from(pms_lookup, keys, pms_data, 1)

\* the body of the loop of load_pms_data for one row of the reference file
load_pms_row(pms_lookup, row) ==
    LET family_name == strip(get(row, "last_name"))
        given_name == strip(get(row, "first_name"))
        sex == strip(get(row, "gender"))
        dob == strip(get(row, "dob"))
        custom_identifier == strip(get(row, "custom_identifier"))
        middle_name == strip(get(row, "middle_initial"))
        ssn == strip(get(row, "ssn"))
        validated == validate_gender_with_cf(sex, ssn)
        pms_data == [custom_identifier |-> custom_identifier,
                     first_name |-> given_name,
                     last_name |-> family_name,
                     middle_initial |-> middle_name,
                     gender |-> validated.corrected_sex,
                     dob |-> dob,
                     ssn |-> ssn,
                     is_pms_gender_error |-> validated.is_pms_gender_error]
        keys == create_composite_keys(family_name, given_name,
                                      validated.corrected_sex, dob)
    IN IF family_name = <<>> \/ given_name = <<>> \/ dob = <<>>
       THEN pms_lookup
       ELSE store_pms_record(pms_lookup, keys, pms_data)

\* PatientRecord.to_dict followed by the four assignments to the row
apply_automatic_update(row, match_result) ==
    IF match_result.pms_data = <<>> THEN row
    ELSE LET pms_data_dict == match_result.pms_data[1]
             from(k, field) == IF k \in DOMAIN pms_data_dict
                               THEN pms_data_dict[k] ELSE get(row, field)
         IN [k \in DOMAIN row \cup {"family_name", "given_name", "sex", "pms_id"} |->
                CASE k = "family_name" -> from("last_name", "family_name")
                  [] k = "given_name" -> from("first_name", "given_name")
                  [] k = "sex" -> from("gender", "sex")
                  [] k = "pms_id" -> from("custom_identifier", "pms_id")
                  [] OTHER -> row[k]]

\* _process_dtx_record applying the update without looking at the review flag
handle_match_result_without_review(row, match_result, manual_review_queue) ==
    IF match_result.match_found
    THEN [row |-> apply_automatic_update(row, match_result),
          manual_review_queue |-> manual_review_queue]
    ELSE [row |-> row, manual_review_queue |-> manual_review_queue]

\* every result match_patient returns is appended to the queue
handle_match_result_queues_all(row, match_result, manual_review_queue) ==
    [row |-> row,
     manual_review_queue |->
         Append(manual_review_queue,
                [dtx_record |-> row, match_result |-> match_result])]

\* _process_dtx_record after its call of match_patient: a match that
\* requires review is appended to the queue by _handle_manual_review, a
\* match that does not is applied by _apply_automatic_update, and the row
\* is returned
handle_match_result(row, match_result, manual_review_queue) ==
    IF match_result.match_found
    THEN IF match_result.requires_manual_review
         THEN [row |-> row,
               manual_review_queue |->
                   Append(manual_review_queue,
                          [dtx_record |-> row, match_result |-> match_result])]
         ELSE [row |-> apply_automatic_update(row, match_result),
               manual_review_queue |-> manual_review_queue]
    ELSE [row |-> row, manual_review_queue |-> manual_review_queue]

(***************************************************************************)
(* strategies/probabilistic.py: the strategy classes, executed on the      *)
(* index of the loader as tests/test_clinical_service.py executes them.    *)
(* The module imports create_name_only_key and is_partial_name_match,      *)
(* which utils/ of this package does not define; they are taken from the   *)
(* packages of the repository that define them.  execute returns None,     *)
(* the empty sequence, or a MatchResult, a one-element sequence.           *)
(***************************************************************************)
\* dtxstudio_patient_info2/utils/key_builders.py
create_name_only_key(family_name, given_name) ==
    join(<< normalize_string(family_name), normalize_string(given_name) >>, "|")

\* str.startswith
startswith(s, prefix) ==
    Len(prefix) <= Len(s) /\ SubSeq(s, 1, Len(prefix)) = prefix

\* dtxstudio_patient_info1/utils.py
is_partial_name_match(pms_name, dtx_name) ==
    IF pms_name = <<>> \/ dtx_name = <<>> THEN FALSE
    ELSE /\ startswith(normalize_string(dtx_name), normalize_string(pms_name))
         /\ Len(normalize_string(pms_name)) > 0

\* match_details.get(k, False)
detail(match_details, k) ==
    IF k \in DOMAIN match_details THEN match_details[k] ELSE FALSE

\* the PatientRecord the three _create_match_result build from a candidate
mapped_patient(candidate) ==
    PatientRecord([family_name |-> get(candidate, "last_name"),
                   given_name |-> get(candidate, "first_name"),
                   sex |-> get(candidate, "gender"),
                   dob |-> get(candidate, "dob"),
                   custom_identifier |-> get(candidate, "custom_identifier"),
                   middle_name |-> get(candidate, "middle_initial"),
                   ssn |-> get(candidate, "ssn")])

\* the part the three _create_match_result have in common
create_match_result(candidate, dtx_record, match_details, confidence_score, match_type, review) ==
    [match_found |-> TRUE,
     pms_data |-> << mapped_patient(candidate) >>,
     confidence_score |-> confidence_score,
     match_type |-> match_type,
     requires_manual_review |-> review,
     is_gender_mismatch |-> mapped_patient(candidate).sex # dtx_record.sex,
     is_date_correction |-> detail(match_details, "fuzzy_date_detected"),
     is_name_flip |-> detail(match_details, "name_flip_detected"),
     is_partial_match |-> detail(match_details, "suffix_removal_detected"),
     is_pms_gender_error |-> IF "is_pms_gender_error" \in DOMAIN candidate
                             THEN candidate.is_pms_gender_error ELSE FALSE]

\* the position of the first candidate from the i-th on whose date of birth
\* is_fuzzy_date_match accepts and that passes the gender test when the
\* strategy has one; 0 when there is none
RECURSIVE first_fuzzy_candidate(_, _, _, _)
first_fuzzy_candidate(candidates, dtx_record, same_gender, i) ==
    IF i > Len(candidates) THEN 0
    ELSE IF /\ is_fuzzy_date_match(dtx_record.dob, get(candidates[i], "dob"))
            /\ same_gender =>
                  normalize_string(dtx_record.sex)
                     = normalize_string(get(candidates[i], "gender"))
    THEN i
    ELSE first_fuzzy_candidate(candidates, dtx_record, same_gender, i + 1)

ExactNamesFuzzyDateStrategy_create_match_result(candidate, dtx_record, match_details) ==
    create_match_result(candidate, dtx_record, match_details, 72,
                        "EXACT_FUZZY_DOB", FALSE)

\* ExactNamesFuzzyDateStrategy.execute, i being the first candidate under
\* the name key that passes
ExactNamesFuzzyDateStrategy_found(dtx_record, candidates, i) ==
    IF i = 0 THEN <<>>
    ELSE << ExactNamesFuzzyDateStrategy_create_match_result(
                candidates[i], dtx_record, [fuzzy_date_detected |-> TRUE]) >>

ExactNamesFuzzyDateStrategy_execute(dtx_record, pms_lookup) ==
    LET name_key == create_name_only_key(dtx_record.family_name,
                                         dtx_record.given_name)
    IN IF name_key \in DOMAIN pms_lookup
       THEN ExactNamesFuzzyDateStrategy_found(dtx_record, pms_lookup[name_key],
                first_fuzzy_candidate(pms_lookup[name_key], dtx_record, TRUE, 1))
       ELSE <<>>

\* a result of the flipped strategy that is not flagged for review
FlippedNamesFuzzyDateStrategy_create_match_result_unflagged(candidate, dtx_record, match_details) ==
    create_match_result(candidate, dtx_record, match_details, 65,
                        "FLIPPED_FUZZY_DOB", FALSE)

FlippedNamesFuzzyDateStrategy_create_match_result(candidate, dtx_record, match_details) ==
    create_match_result(candidate, dtx_record, match_details, 65,
                        "FLIPPED_FUZZY_DOB", TRUE)

\* the loop of FlippedNamesFuzzyDateStrategy.execute over name_keys from
\* the n-th on
RECURSIVE FlippedNamesFuzzyDateStrategy_from(_, _, _, _)
FlippedNamesFuzzyDateStrategy_found(dtx_record, pms_lookup, name_keys, n, i) ==
    IF i = 0
    THEN FlippedNamesFuzzyDateStrategy_from(dtx_record, pms_lookup, name_keys, n + 1)
    ELSE << FlippedNamesFuzzyDateStrategy_create_match_result(
                pms_lookup[name_keys[n]][i], dtx_record,
                [name_flip_detected |-> name_keys[n] = name_keys[2],
                 fuzzy_date_detected |-> TRUE]) >>

FlippedNamesFuzzyDateStrategy_from(dtx_record, pms_lookup, name_keys, n) ==
    IF n > Len(name_keys) THEN <<>>
    ELSE IF name_keys[n] \in DOMAIN pms_lookup
    THEN FlippedNamesFuzzyDateStrategy_found(dtx_record, pms_lookup, name_keys, n,
             first_fuzzy_candidate(pms_lookup[name_keys[n]], dtx_record, FALSE, 1))
    ELSE FlippedNamesFuzzyDateStrategy_from(dtx_record, pms_lookup, name_keys, n + 1)

FlippedNamesFuzzyDateStrategy_execute(dtx_record, pms_lookup) ==
    FlippedNamesFuzzyDateStrategy_from(dtx_record, pms_lookup,
        << create_name_only_key(dtx_record.family_name, dtx_record.given_name),
           create_flipped_name_only_key(dtx_record.family_name,
                                        dtx_record.given_name) >>,
        1)

PartialNamesFuzzyDateStrategy_create_match_result(candidate, dtx_record, match_details) ==
    create_match_result(candidate, dtx_record, match_details, 55,
                        "PARTIAL_FUZZY_DOB", TRUE)

\* the keys of the index whose value is a dict that passes the test of
\* PartialNamesFuzzyDateStrategy.execute
partial_fuzzy_keys(dtx_record, pms_lookup) ==
    { pms_key \in DOMAIN pms_lookup :
         /\ Len(pms_lookup[pms_key]) = 1
         /\ is_partial_name_match(get(pms_lookup[pms_key][1], "last_name"),
                                  dtx_record.family_name)
         /\ is_partial_name_match(get(pms_lookup[pms_key][1], "first_name"),
                                  dtx_record.given_name)
         /\ is_fuzzy_date_match(dtx_record.dob, get(pms_lookup[pms_key][1], "dob")) }

\* PartialNamesFuzzyDateStrategy.execute returns the result for the first
\* key of the index that passes.  The index of the model does not keep the
\* order of its keys: the value is the set of the results for all the keys
\* that pass, the set that holds None when there is no such key.
PartialNamesFuzzyDateStrategy_execute(dtx_record, pms_lookup) ==
    IF partial_fuzzy_keys(dtx_record, pms_lookup) = {} THEN { <<>> }
    ELSE { << PartialNamesFuzzyDateStrategy_create_match_result(
                  pms_lookup[pms_key][1], dtx_record,
                  [suffix_removal_detected |-> TRUE,
                   fuzzy_date_detected |-> TRUE]) >> :
              pms_key \in partial_fuzzy_keys(dtx_record, pms_lookup) }

(***************************************************************************)
(* Bounds and the rows the two files are drawn from                        *)
(***************************************************************************)
MaxPmsRows ==
    2

MaxDtxRows ==
    2

MaxBatches ==
    2

Ro == << "R", "o" >>
Ma == << "M", "a" >>
Xy == << "X", "y" >>
Zw == << "Z", "w" >>

D19900115 == << "1", "9", "9", "0", "-", "0", "1", "-", "1", "5" >>
D19900116 == << "1", "9", "9", "0", "-", "0", "1", "-", "1", "6" >>
D20011230 == << "2", "0", "0", "1", "-", "1", "2", "-", "3", "0" >>
US19900115 == << "0", "1", "/", "1", "5", "/", "1", "9", "9", "0" >>

\* tax identifiers: day field 15 encodes MALE, day field 55 encodes FEMALE
CfMale == << "R", "S", "S", "M", "R", "A", "9", "0", "A", "1", "5", "H" >>
CfFemale == << "R", "S", "S", "M", "R", "A", "9", "0", "A", "5", "5", "H" >>

PmsRow(id, last_name, first_name, gender, dob, ssn) ==
    [custom_identifier |-> id, last_name |-> last_name, first_name |-> first_name,
     middle_initial |-> <<>>, gender |-> gender, dob |-> dob, ssn |-> ssn]

\* rows of the reference file: a baseline record; its names in another
\* case with a close date and a synonym of its gender; its names swapped
\* with the date in another format; a declared gender the tax identifier
\* contradicts; a row without date of birth
PmsRows ==
    { PmsRow(<< "1" >>, Ro, Ma, MALE, D19900115, <<>>),
      PmsRow(<< "2" >>, << "r", "o", " " >>, Ma, << "M" >>, D19900116, CfMale),
      PmsRow(<< "3" >>, Ma, Ro, MALE, US19900115, <<>>),
      PmsRow(<< "4" >>, Ro, Ma, MALE, D19900115, CfFemale),
      PmsRow(<< "5" >>, Ro, Ma, MALE, <<>>, <<>>) }

DtxRow(family_name, given_name, sex, dob) ==
    [family_name |-> family_name, given_name |-> given_name, sex |-> sex,
     dob |-> dob, pms_id |-> <<>>]

\* rows of the incoming file: the baseline; its names swapped; another
\* gender and date format; a close date; a distant date and another gender;
\* suffixed names; unknown names
DtxRows ==
    { DtxRow(Ro, Ma, MALE, D19900115),
      DtxRow(Ma, Ro, MALE, D19900115),
      DtxRow(Ro, Ma, << "F" >>, US19900115),
      DtxRow(Ro, Ma, << "m" >>, D19900116),
      DtxRow(<< "R", "O" >>, Ma, FEMALE, D20011230),
      DtxRow(<< "R", "o", " ", "B" >>, << "M", "a", " ", "T" >>, MALE, D19900115),
      DtxRow(Xy, Zw, MALE, D19900115) }

\* no statistics object has been handed to a caller.  A snapshot records
\* whether one was handed out, the counters at that time, whether it still
\* is the object the matcher counts in, and the counters it shows now.
NoSnapshot ==
    [taken |-> FALSE, alias |-> FALSE, at |-> SessionStatistics,
     now |-> SessionStatistics]

\* no function without state has been called
NoCall ==
    [function |-> "none", args |-> <<>>, result |-> <<>>]

(***************************************************************************)
(* The service as a state machine                                          *)
(***************************************************************************)
VARIABLES
    pc,                   \* "start", "loading", "ready" or "batch"
    pms_lookup,           \* the index load_pms_data builds and returns
    rows_read,            \* rows of the reference file read so far
    session_stats,        \* matcher.session_stats
    manual_review_queue,  \* service.manual_review_queue
    batches,              \* calls of process_dtx_file so far
    rows_processed,       \* rows of the incoming file read in this call
    last,                 \* the latest call of match_patient
    confidence_threshold, \* the argument the matcher was constructed with
    snapshot,             \* what get_session_statistics returned to a caller
    pure_call             \* a call of a function that has no state

vars ==
    << pc, pms_lookup, rows_read, session_stats, manual_review_queue,
       batches, rows_processed, last, confidence_threshold, snapshot,
       pure_call >>

Init ==
    /\ pc = "start"
    /\ pms_lookup = [k \in {} |-> <<>>]
    /\ rows_read = 0
    /\ session_stats = SessionStatistics
    /\ manual_review_queue = <<>>
    /\ batches = 0
    /\ rows_processed = 0
    /\ last = [call |-> "none", dtx_record |-> [dicom_id |-> <<>>],
               row |-> [dicom_id |-> <<>>], result |-> NoMatchResult,
               frame |-> NoFrame]
    /\ confidence_threshold = 70
    /\ snapshot = NoSnapshot
    /\ pure_call = NoCall

\* load_pms_data starts with an empty index
load_pms_data_begin ==
    /\ pc = "start"
    /\ pc' = "loading"
    /\ pms_lookup' = [k \in {} |-> <<>>]
    /\ UNCHANGED << confidence_threshold, snapshot, pure_call,
                    rows_read, session_stats, manual_review_queue, batches,
                    rows_processed, last >>

\* one iteration of the loop of load_pms_data
load_pms_data_row ==
    /\ pc = "loading"
    /\ rows_read < MaxPmsRows
    /\ \E row \in PmsRows :
          pms_lookup' = load_pms_row(pms_lookup, row)
    /\ rows_read' = rows_read + 1
    /\ UNCHANGED << confidence_threshold, snapshot, pure_call,
                    pc, session_stats, manual_review_queue, batches,
                    rows_processed, last >>

\* the reference file is exhausted and load_pms_data returns the index
load_pms_data_end ==
    /\ pc = "loading"
    /\ pc' = "ready"
    /\ UNCHANGED << confidence_threshold, snapshot, pure_call,
                    pms_lookup, rows_read, session_stats, manual_review_queue,
                    batches, rows_processed, last >>

\* process_dtx_file resets the queue and opens the incoming file
process_dtx_file_begin ==
    /\ pc = "ready"
    /\ batches < MaxBatches
    /\ pc' = "batch"
    /\ batches' = batches + 1
    /\ manual_review_queue' = <<>>
    /\ rows_processed' = 0
    /\ UNCHANGED << confidence_threshold, snapshot, pure_call,
                    pms_lookup, rows_read, session_stats, last >>

\* _process_dtx_record for the next row of the incoming file, m being the
\* outcome of its call of match_patient; an exception of match_patient
\* leaves process_dtx_file
process_dtx_record ==
    /\ pc = "batch"
    /\ rows_processed < MaxDtxRows
    /\ \E row \in DtxRows :
       \E m \in {match_patient(row, pms_lookup, session_stats)} :
       \E h \in {handle_match_result(row, m.result, manual_review_queue)} :
          /\ session_stats' = m.session_stats
          /\ manual_review_queue' =
                IF m.raised THEN manual_review_queue ELSE h.manual_review_queue
          /\ last' = [call |-> IF m.raised THEN "raised" ELSE "returned",
                      dtx_record |-> row,
                      row |-> IF m.raised THEN row ELSE h.row,
                      result |-> m.result,
                      frame |-> m.frame]
          /\ pc' = IF m.raised THEN "ready" ELSE "batch"
    /\ rows_processed' = rows_processed + 1
    /\ UNCHANGED << confidence_threshold, snapshot, pure_call,
                    pms_lookup, rows_read, batches >>

\* the incoming file is exhausted and process_dtx_file returns the statistics
process_dtx_file_end ==
    /\ pc = "batch"
    /\ pc' = "ready"
    /\ UNCHANGED << confidence_threshold, snapshot, pure_call,
                    pms_lookup, rows_read, session_stats, manual_review_queue,
                    batches, rows_processed, last >>

Next ==
    \/ load_pms_data_begin
    \/ load_pms_data_row
    \/ load_pms_data_end
    \/ process_dtx_file_begin
    \/ process_dtx_record
    \/ process_dtx_file_end

Spec ==
    Init /\ [][Next]_vars

(***************************************************************************)
(* The service with its matcher replaced by a double, as the tests of      *)
(* process_dtx_file in tests/test_clinical_service.py set it up: the       *)
(* double answers each call with one of the results the tests build and    *)
(* reads neither the index nor the session statistics                      *)
(***************************************************************************)
pms_patient ==
    PatientRecord([family_name |-> Ro, given_name |-> Ma, sex |-> MALE,
                   dob |-> D19900115, custom_identifier |-> << "1" >>])

successful_match ==
    [match_found |-> TRUE, pms_data |-> << pms_patient >>,
     confidence_score |-> 95, match_type |-> "GOLD_STANDARD",
     requires_manual_review |-> FALSE,
     is_gender_mismatch |-> FALSE, is_date_correction |-> FALSE,
     is_name_flip |-> FALSE, is_partial_match |-> FALSE,
     is_pms_gender_error |-> FALSE]

manual_review_match ==
    [match_found |-> TRUE, pms_data |-> << pms_patient >>,
     confidence_score |-> 65, match_type |-> "PARTIAL_EXACT",
     requires_manual_review |-> TRUE,
     is_gender_mismatch |-> TRUE, is_date_correction |-> FALSE,
     is_name_flip |-> FALSE, is_partial_match |-> TRUE,
     is_pms_gender_error |-> FALSE]

no_match ==
    [match_found |-> FALSE, pms_data |-> <<>>,
     confidence_score |-> 0, match_type |-> "NO_MATCH",
     requires_manual_review |-> FALSE,
     is_gender_mismatch |-> FALSE, is_date_correction |-> FALSE,
     is_name_flip |-> FALSE, is_partial_match |-> FALSE,
     is_pms_gender_error |-> FALSE]

mock_matcher ==
    { successful_match, manual_review_match, no_match }

\* the service is constructed and process_dtx_file is handed an index
InitDouble ==
    /\ pc = "ready"
    /\ pms_lookup = [k \in {} |-> <<>>]
    /\ rows_read = 0
    /\ session_stats = SessionStatistics
    /\ manual_review_queue = <<>>
    /\ batches = 0
    /\ rows_processed = 0
    /\ last = [call |-> "none", dtx_record |-> [dicom_id |-> <<>>],
               row |-> [dicom_id |-> <<>>], result |-> NoMatchResult,
               frame |-> NoFrame]
    /\ confidence_threshold = 70
    /\ snapshot = NoSnapshot
    /\ pure_call = NoCall

\* _process_dtx_record for the next row, the double answering match_patient
process_dtx_record_double ==
    /\ pc = "batch"
    /\ rows_processed < MaxDtxRows
    /\ \E row \in DtxRows, match_result \in mock_matcher :
       \E h \in {handle_match_result(row, match_result, manual_review_queue)} :
          /\ manual_review_queue' = h.manual_review_queue
          /\ last' = [call |-> "returned", dtx_record |-> row, row |-> h.row,
                      result |-> match_result, frame |-> NoFrame]
    /\ rows_processed' = rows_processed + 1
    /\ UNCHANGED << confidence_threshold, snapshot, pure_call,
                    pc, pms_lookup, rows_read, session_stats, batches >>

NextDouble ==
    \/ process_dtx_file_begin
    \/ process_dtx_record_double
    \/ process_dtx_file_end

SpecDouble ==
    InitDouble /\ [][NextDouble]_vars

(***************************************************************************)
(* The matcher called on its own, as tests/test_clinical_matching.py and   *)
(* main.py call it: constructed with a threshold and handed an index the   *)
(* caller built.  The records of these indexes carry the field names of    *)
(* PatientRecord, the records _evaluate_strategy can build its result      *)
(* from.  Here rows_read counts the calls of match_patient, rows_processed *)
(* those since the statistics were last reset, and batches the resets.     *)
(***************************************************************************)
MaxCalls ==
    2

MaxResets ==
    1

\* the thresholds a matcher is constructed with: the default and a
\* stricter one
ConfidenceThresholds ==
    { 70, 90 }

Patient(family_name, given_name, sex, dob, ssn) ==
    [family_name |-> family_name, given_name |-> given_name, sex |-> sex,
     dob |-> dob, ssn |-> ssn]

\* the keys of the given types a record is found under
keys_under(record, types) ==
    { create_composite_keys(record.family_name, record.given_name,
                            record.sex, record.dob)[t] : t \in types }

\* a dict that has each record under its keys of the given types, the
\* records of one key in the order of the sequence
hand_built_index(records, types) ==
    [k \in UNION { keys_under(records[i], types) : i \in 1..Len(records) } |->
        SelectSeq(records, LAMBDA r : k \in keys_under(r, types))]

\* indexes handed to match_patient: one record under all its keys; one
\* record under the keys of its own name order; two records of the same
\* names, the first far from the second in gender and date
HandBuiltIndexes ==
    { hand_built_index(<< Patient(Ro, Ma, MALE, D19900115, <<>>) >>,
                       { key_types[i] : i \in 1..Len(key_types) }),
      hand_built_index(<< Patient(Ro, Ma, MALE, D19900115, <<>>) >>,
                       { "exact", "loose", "name_only" }),
      hand_built_index(<< Patient(Ro, Ma, FEMALE, D20011230, CfFemale),
                          Patient(Ro, Ma, MALE, D19900115, <<>>) >>,
                       { "exact", "loose", "name_only" }) }

\* the incoming records: the baseline; another gender and date format; a
\* close date; swapped names with another gender; unknown names
DtxRecords ==
    { DtxRow(Ro, Ma, MALE, D19900115),
      DtxRow(Ro, Ma, << "F" >>, US19900115),
      DtxRow(Ro, Ma, << "m" >>, D19900116),
      DtxRow(Ma, Ro, FEMALE, D19900115),
      DtxRow(Xy, Zw, MALE, D19900115) }

\* ClinicalPatientMatcher(confidence_threshold) and an index
InitMatcher ==
    /\ pc = "matcher"
    /\ pms_lookup \in HandBuiltIndexes
    /\ confidence_threshold \in ConfidenceThresholds
    /\ rows_read = 0
    /\ session_stats = SessionStatistics
    /\ manual_review_queue = <<>>
    /\ batches = 0
    /\ rows_processed = 0
    /\ last = [call |-> "none", dtx_record |-> [dicom_id |-> <<>>],
               row |-> [dicom_id |-> <<>>], result |-> NoMatchResult,
               frame |-> NoFrame]
    /\ snapshot = NoSnapshot
    /\ pure_call = NoCall

\* a call of match_patient; an object handed out by get_session_statistics
\* that still is matcher.session_stats shows the counters after the call
match_patient_call ==
    /\ pc = "matcher"
    /\ rows_read < MaxCalls
    /\ \E dtx_record \in DtxRecords :
       \E m \in {match_patient(dtx_record, pms_lookup, session_stats)} :
          /\ session_stats' = m.session_stats
          /\ last' = [call |-> IF m.raised THEN "raised" ELSE "returned",
                      dtx_record |-> dtx_record, row |-> dtx_record,
                      result |-> m.result, frame |-> m.frame]
          /\ snapshot' = IF snapshot.alias
                         THEN [snapshot EXCEPT !.now = m.session_stats]
                         ELSE snapshot
    /\ rows_read' = rows_read + 1
    /\ rows_processed' = rows_processed + 1
    /\ UNCHANGED << pc, pms_lookup, manual_review_queue, batches,
                    confidence_threshold, pure_call >>

\* get_session_statistics returns matcher.session_stats itself
get_session_statistics ==
    /\ pc = "matcher"
    /\ snapshot' = [taken |-> TRUE, alias |-> TRUE, at |-> session_stats,
                    now |-> session_stats]
    /\ UNCHANGED << pc, pms_lookup, rows_read, session_stats,
                    manual_review_queue, batches, rows_processed, last,
                    confidence_threshold, pure_call >>

\* reset_session_statistics binds matcher.session_stats to a new object
reset_session_statistics ==
    /\ pc = "matcher"
    /\ batches < MaxResets
    /\ batches' = batches + 1
    /\ session_stats' = SessionStatistics
    /\ snapshot' = [snapshot EXCEPT !.alias = FALSE]
    /\ rows_processed' = 0
    /\ UNCHANGED << pc, pms_lookup, rows_read, manual_review_queue, last,
                    confidence_threshold, pure_call >>

NextMatcher ==
    \/ match_patient_call
    \/ get_session_statistics
    \/ reset_session_statistics

SpecMatcher ==
    InitMatcher /\ [][NextMatcher]_vars

(***************************************************************************)
(* The strategy classes executed on the index of the loader                *)
(***************************************************************************)
\* strategy.execute(dtx_patient_record, pms_lookup) on the loaded index
execute_exact_names_fuzzy_date ==
    /\ pc = "ready"
    /\ \E dtx_record \in DtxRows :
          pure_call' = [function |-> "ExactNamesFuzzyDateStrategy.execute",
                        args |-> << dtx_record >>,
                        result |-> ExactNamesFuzzyDateStrategy_execute(
                                       dtx_record, pms_lookup)]
    /\ UNCHANGED << pc, pms_lookup, rows_read, session_stats,
                    manual_review_queue, batches, rows_processed, last,
                    confidence_threshold, snapshot >>

execute_flipped_names_fuzzy_date ==
    /\ pc = "ready"
    /\ \E dtx_record \in DtxRows :
          pure_call' = [function |-> "FlippedNamesFuzzyDateStrategy.execute",
                        args |-> << dtx_record >>,
                        result |-> FlippedNamesFuzzyDateStrategy_execute(
                                       dtx_record, pms_lookup)]
    /\ UNCHANGED << pc, pms_lookup, rows_read, session_stats,
                    manual_review_queue, batches, rows_processed, last,
                    confidence_threshold, snapshot >>

execute_partial_names_fuzzy_date ==
    /\ pc = "ready"
    /\ \E dtx_record \in DtxRows :
       \E result \in PartialNamesFuzzyDateStrategy_execute(dtx_record, pms_lookup) :
          pure_call' = [function |-> "PartialNamesFuzzyDateStrategy.execute",
                        args |-> << dtx_record >>,
                        result |-> result]
    /\ UNCHANGED << pc, pms_lookup, rows_read, session_stats,
                    manual_review_queue, batches, rows_processed, last,
                    confidence_threshold, snapshot >>

NextStrategies ==
    \/ load_pms_data_begin
    \/ load_pms_data_row
    \/ load_pms_data_end
    \/ execute_exact_names_fuzzy_date
    \/ execute_flipped_names_fuzzy_date
    \/ execute_partial_names_fuzzy_date

SpecStrategies ==
    Init /\ [][NextStrategies]_vars

(***************************************************************************)
(* ConfidenceCalculator.calculate_adjusted_confidence called on its own    *)
(***************************************************************************)
\* base confidences, the hundredths of [0.0, 1.0]
BaseConfidences ==
    0..100

\* the dicts of correction flags over the correction types that have a
\* factor
Corrections ==
    [DOMAIN correction_factors -> BOOLEAN]

InitConfidence ==
    /\ pc = "confidence"
    /\ pms_lookup = [k \in {} |-> <<>>]
    /\ rows_read = 0
    /\ session_stats = SessionStatistics
    /\ manual_review_queue = <<>>
    /\ batches = 0
    /\ rows_processed = 0
    /\ last = [call |-> "none", dtx_record |-> [dicom_id |-> <<>>],
               row |-> [dicom_id |-> <<>>], result |-> NoMatchResult,
               frame |-> NoFrame]
    /\ confidence_threshold = 70
    /\ snapshot = NoSnapshot
    /\ pure_call = NoCall

\* the one call of a behaviour
calculate_adjusted_confidence_call ==
    /\ pc = "confidence"
    /\ pure_call.function = "none"
    /\ \E base_confidence \in BaseConfidences, corrections \in Corrections :
          pure_call' = [function |-> "calculate_adjusted_confidence",
                        args |-> << base_confidence, corrections >>,
                        result |-> calculate_adjusted_confidence(
                                       base_confidence, corrections)]
    /\ UNCHANGED << pc, pms_lookup, rows_read, session_stats,
                    manual_review_queue, batches, rows_processed, last,
                    confidence_threshold, snapshot >>

NextConfidence ==
    calculate_adjusted_confidence_call

SpecConfidence ==
    InitConfidence /\ [][NextConfidence]_vars

(***************************************************************************)
(* The functions of utils called on their own                              *)
(***************************************************************************)
\* characters of the day field of a tax identifier
DayCharacters ==
    { Digits[i] : i \in 1..10 } \cup { " ", "+", "-", "A" }

\* tax identifiers: every day field over DayCharacters after a fixed
\* prefix, and identifiers of fewer than 11 characters
CodiciFiscali ==
    { << "R", "S", "S", "M", "R", "A", "9", "0", "A", c, d, "H" >> :
         c \in DayCharacters, d \in DayCharacters }
    \cup { <<>>, << "1", "5" >>,
           << "R", "S", "S", "M", "R", "A", "9", "0", "A", "1" >> }

\* declared genders: the two genders, a synonym of each, another case with
\* spaces around, none, and an unknown one
DeclaredGenders ==
    { MALE, FEMALE, << "M" >>, << "F" >>, << " ", "m", "a", "l", "e", " " >>,
      <<>>, << "X" >> }

InitUtils ==
    /\ pc = "utils"
    /\ pms_lookup = [k \in {} |-> <<>>]
    /\ rows_read = 0
    /\ session_stats = SessionStatistics
    /\ manual_review_queue = <<>>
    /\ batches = 0
    /\ rows_processed = 0
    /\ last = [call |-> "none", dtx_record |-> [dicom_id |-> <<>>],
               row |-> [dicom_id |-> <<>>], result |-> NoMatchResult,
               frame |-> NoFrame]
    /\ confidence_threshold = 70
    /\ snapshot = NoSnapshot
    /\ pure_call = NoCall

\* the one call of a behaviour is a call of f with the arguments args and
\* the outcome result
called(f, args, result) ==
    /\ pc = "utils"
    /\ pure_call.function = "none"
    /\ pure_call' = [function |-> f, args |-> args, result |-> result]
    /\ UNCHANGED << pc, pms_lookup, rows_read, session_stats,
                    manual_review_queue, batches, rows_processed, last,
                    confidence_threshold, snapshot >>

extract_gender_from_codice_fiscale_call ==
    \E ssn \in CodiciFiscali :
       called("extract_gender_from_codice_fiscale", << ssn >>,
              extract_gender_from_codice_fiscale(ssn))

updater_extract_gender_from_codice_fiscale_call ==
    \E ssn \in CodiciFiscali :
       called("patient_info_updater.extract_gender_from_codice_fiscale",
              << ssn >>, updater_extract_gender_from_codice_fiscale(ssn))

is_codice_fiscale_gender_consistent_call ==
    \E cf \in CodiciFiscali, declared_gender \in DeclaredGenders :
       called("is_codice_fiscale_gender_consistent", << cf, declared_gender >>,
              is_codice_fiscale_gender_consistent(cf, declared_gender))

\* date strings: three formats of the same day, a day next to it, a day
\* read with a letter for a digit, two days in a format normalize_date
\* does not know, a date without separators, the same day in the two other
\* formats with slashes, a date with slashes that is a day both ways round,
\* a year below 1000, a string that is no date, and the empty string
DateStrings ==
    { D19900115, D19900116, US19900115,
      << "1", "9", "9", "O", "-", "0", "1", "-", "1", "5" >>,
      << "1", "5", ".", "0", "1", ".", "9", "0" >>,
      << "1", "5", ".", "0", "1", ".", "9", "1" >>,
      << "1", "9", "9", "0", "0", "1", "1", "5" >>,
      << "1", "5", "/", "0", "1", "/", "1", "9", "9", "0" >>,
      << "1", "9", "9", "0", "/", "0", "1", "/", "1", "5" >>,
      << "0", "3", "/", "0", "4", "/", "1", "9", "9", "0" >>,
      << "0", "9", "9", "0", "-", "0", "1", "-", "1", "5" >>,
      << "a", "b", "c" >>,
      <<>> }

calculate_date_similarity_call ==
    \E date1 \in DateStrings, date2 \in DateStrings :
       called("calculate_date_similarity", << date1, date2 >>,
              calculate_date_similarity(date1, date2))

\* is_fuzzy_date_match as the matcher imports it, with its default arguments
is_fuzzy_date_match_call ==
    \E date1 \in DateStrings, date2 \in DateStrings :
       called("is_fuzzy_date_match", << date1, date2 >>,
              is_fuzzy_date_match(date1, date2))

\* names: one name in two cases, with a diacritic and with a space inside,
\* and one name with and without its apostrophe
NameStrings ==
    { << "J", "o", "s", "é" >>, << "J", "O", "S", "E" >>,
      << "j", "o", " ", "s", "é" >>, << "j", "o", "s", "e" >>,
      << "O", "'", "C", "o", "n" >>, << "O", "C", "o", "n" >>,
      << " ", "R", "o", "\t" >>, <<>> }

normalize_string_call ==
    \E s \in NameStrings :
       called("normalize_string", << s >>, normalize_string(s))

\* normalize_string of dtxstudio_patient_info1/utils.py: re.sub(r"[\s']+", '', s.lower())
utils1_normalize_string(s) ==
    IF s = <<>> THEN <<>>
    ELSE SelectSeq(lower(s), LAMBDA c : ~isspace(c) /\ c # "'")

utils1_normalize_string_call ==
    \E s \in NameStrings :
       called("dtxstudio_patient_info1.utils.normalize_string", << s >>,
              utils1_normalize_string(s))

normalize_date_call ==
    \E date_str \in DateStrings :
       called("normalize_date", << date_str >>, normalize_date(date_str))

\* records whose keys are built: a record, the same with its date in
\* another format and a synonym of its gender, its names swapped, two
\* records whose names hold the separator of the keys at different places,
\* a record without gender, and one whose given name ends in the separator
KeyRecords ==
    { DtxRow(Ro, Ma, MALE, D19900115),
      DtxRow(<< "R", "O" >>, << "m", "a", " " >>, << "m" >>, US19900115),
      DtxRow(Ma, Ro, MALE, D19900115),
      DtxRow(<< "a", "|", "b" >>, << "c" >>, MALE, D19900115),
      DtxRow(<< "a" >>, << "b", "|", "c" >>, MALE, D19900115),
      DtxRow(Ro, Ma, <<>>, D19900115),
      DtxRow(Ro, << "M", "a", "|" >>, MALE, D19900115) }

create_composite_keys_call ==
    \E record \in KeyRecords :
       called("create_composite_keys", << record >>,
              create_composite_keys(record.family_name, record.given_name,
                                    record.sex, record.dob))

NextUtils ==
    \/ extract_gender_from_codice_fiscale_call
    \/ updater_extract_gender_from_codice_fiscale_call
    \/ is_codice_fiscale_gender_consistent_call
    \/ calculate_date_similarity_call
    \/ is_fuzzy_date_match_call
    \/ normalize_string_call
    \/ utils1_normalize_string_call
    \/ normalize_date_call
    \/ create_composite_keys_call

SpecUtils ==
    InitUtils /\ [][NextUtils]_vars

(***************************************************************************)
(* Properties of match_patient                                             *)
(***************************************************************************)
\* the keys match_patient builds for an incoming record
keys_of(dtx_record) ==
    create_composite_keys(get(dtx_record, "family_name"),
                          get(dtx_record, "given_name"),
                          get(dtx_record, "sex"),
                          get(dtx_record, "dob"))

\* the strategy matches: its evaluation finds a reference record
matches(strategy, keys, lookup) ==
    LET match_key == select_match_key(strategy, keys)
    IN match_key # None /\ match_key # <<>> /\ match_key \in DOMAIN lookup

\* the priorities of the strategies that match
matching(dtx_record, lookup) ==
    LET keys == keys_of(dtx_record)
    IN { i \in 1..Len(strategies) : matches(strategies[i], keys, lookup) }

\* the reference records of the index
reference_records ==
    UNION { { pms_lookup[k][i] : i \in 1..Len(pms_lookup[k]) } : k \in DOMAIN pms_lookup }

\* the latest call returned a match of the given type
returned(match_type) ==
    /\ last.call = "returned"
    /\ last.result.match_found
    /\ last.result.match_type = match_type

\* the strategy of the given name determined the outcome of the latest call:
\* the loop of match_patient ended in its evaluation
determined(match_type) ==
    /\ last.call # "none"
    /\ last.frame.strategy = match_type

is_prefix(p, s) ==
    Len(p) <= Len(s) /\ SubSeq(s, 1, Len(p)) = p

\* C1: after every call of match_patient, if some strategy matches the
\* incoming record then the call has returned the match of the matching
\* strategy of the smallest priority, and if none matches it has returned
\* no match.
C1_FirstMatchingStrategyIsReturned ==
    last.call # "none" =>
        LET m == matching(last.dtx_record, pms_lookup) IN
        IF m = {}
        THEN last.call = "returned" /\ ~last.result.match_found
        ELSE returned(strategies[CHOOSE i \in m : \A j \in m : i <= j].name)

\* C2: no call of match_patient on an index built by the loader raises.
C2_MatchPatientNeverRaises ==
    last.call # "raised"

\* the reference record and the incoming record have the same normalized
\* family name, given name, sex and date of birth
same_normalized(pms_data, dtx_record) ==
    /\ normalize_string(pms_data.last_name)
          = normalize_string(get(dtx_record, "family_name"))
    /\ normalize_string(pms_data.first_name)
          = normalize_string(get(dtx_record, "given_name"))
    /\ normalize_gender(pms_data.gender) = normalize_gender(get(dtx_record, "sex"))
    /\ normalize_date(pms_data.dob) = normalize_date(get(dtx_record, "dob"))

\* C3: after a call of match_patient for an incoming record that has the
\* normalized family name, given name, sex and date of birth of some
\* reference record, the call has returned GOLD_STANDARD with confidence
\* 1.00 and without manual review.
C3_IdenticalRecordIsGoldStandard ==
    ( /\ last.call # "none"
      /\ \E r \in reference_records : same_normalized(r, last.dtx_record) )
    => /\ returned("GOLD_STANDARD")
       /\ last.result.confidence_score = 100
       /\ ~last.result.requires_manual_review

\* C4: the reference record that a GOLD_STANDARD match pairs with the
\* incoming record has the incoming record's normalized family name, given
\* name, sex and date of birth.
C4_GoldStandardRecordIsIdentical ==
    determined("GOLD_STANDARD") =>
        same_normalized(last.frame.pms_data[1], last.dtx_record)

\* the incoming record is the reference record with its names swapped
swapped(pms_data, dtx_record) ==
    /\ get(dtx_record, "family_name") = pms_data.first_name
    /\ get(dtx_record, "given_name") = pms_data.last_name
    /\ get(dtx_record, "sex") = pms_data.gender
    /\ get(dtx_record, "dob") = pms_data.dob

\* C5: when the reference set has a single record, whose normalized names
\* differ, a call of match_patient for that record with family and given
\* name swapped has returned FLIPPED_EXACT with confidence 0.97 and
\* name_flip set.
C5_SwappedNamesAreFlippedExact ==
    ( /\ last.call # "none"
      /\ rows_read = 1
      /\ \E r \in reference_records :
            /\ normalize_string(r.last_name) # normalize_string(r.first_name)
            /\ swapped(r, last.dtx_record) )
    => /\ returned("FLIPPED_EXACT")
       /\ last.result.confidence_score = 97
       /\ last.result.is_name_flip

\* the names of the reference record are prefixes of the names of the incoming
\* record, and gender and date of birth are equal
partial_exact(pms_data, dtx_record) ==
    /\ is_prefix(normalize_string(pms_data.last_name),
                 normalize_string(get(dtx_record, "family_name")))
    /\ is_prefix(normalize_string(pms_data.first_name),
                 normalize_string(get(dtx_record, "given_name")))
    /\ normalize_gender(pms_data.gender) = normalize_gender(get(dtx_record, "sex"))
    /\ normalize_date(pms_data.dob) = normalize_date(get(dtx_record, "dob"))

\* C6: after a call of match_patient in which strategies 1-4 do not match
\* and some reference record's names are prefixes of the incoming names
\* with equal gender and date of birth, the call has returned PARTIAL_EXACT
\* with confidence 0.85.
C6_PrefixNamesArePartialExact ==
    ( /\ last.call # "none"
      /\ matching(last.dtx_record, pms_lookup) \cap 1..4 = {}
      /\ \E r \in reference_records : partial_exact(r, last.dtx_record) )
    => /\ returned("PARTIAL_EXACT")
       /\ last.result.confidence_score = 85

\* some candidate under the incoming record's name_only key has the gender
\* of the incoming record and a date of birth similar to its date
fuzzy_candidate(dtx_record, lookup) ==
    LET key == keys_of(dtx_record).name_only IN
    /\ key \in DOMAIN lookup
    /\ \E i \in 1..Len(lookup[key]) :
          /\ normalize_gender(lookup[key][i].gender)
                = normalize_gender(get(dtx_record, "sex"))
          /\ calculate_date_similarity(get(dtx_record, "dob"), lookup[key][i].dob)
                >= threshold

\* C7: after a call of match_patient in which strategies 1-6 do not match,
\* the call has returned EXACT_FUZZY_DOB exactly when some candidate under
\* the name_only key has the same gender and a date of birth of similarity
\* at least 0.80, and then with confidence 0.72 and without manual review.
C7_FuzzyDateIffSimilarCandidate ==
    ( /\ last.call # "none"
      /\ matching(last.dtx_record, pms_lookup) \cap 1..6 = {} )
    => /\ returned("EXACT_FUZZY_DOB") <=> fuzzy_candidate(last.dtx_record, pms_lookup)
       /\ returned("EXACT_FUZZY_DOB")
             => /\ last.result.confidence_score = 72
                /\ ~last.result.requires_manual_review

C9_NoStrategyMatchesGivesNoMatch ==
    [][ ( /\ rows_processed' = rows_processed + 1
          /\ matching(last'.dtx_record, pms_lookup) = {} )
        => /\ last'.call = "returned"
           /\ ~last'.result.match_found
           /\ last'.result.match_type = "NO_MATCH"
           /\ last'.result.confidence_score = 0
           /\ last'.result.pms_data = <<>>
           /\ ~last'.result.requires_manual_review
           /\ session_stats' = [session_stats EXCEPT !.no_matches = @ + 1,
                                                     !.total_processed = @ + 1]
      ]_vars

\* two records of a batch found no match in an index that holds records
C9_Witness ==
    /\ last.call = "returned"
    /\ ~last.result.match_found
    /\ DOMAIN pms_lookup # {}
    /\ session_stats.no_matches = 2
    /\ session_stats.total_processed = 2

(***************************************************************************)
(* Properties of process_dtx_file                                          *)
(***************************************************************************)
\* C10: in every step of a batch the row is modified only if the match was
\* found and requires no review; a match that requires review leaves the
\* row unchanged and appends it once to the manual-review queue; a match
\* that does not require review and a no-match leave the queue unchanged.
C10_UpdateOnlyWithoutReview ==
    [][ rows_processed' = rows_processed + 1 =>
          LET match_result == last'.result
              reviewed == match_result.match_found /\ match_result.requires_manual_review
          IN /\ last'.row # last'.dtx_record
                   => match_result.match_found /\ ~match_result.requires_manual_review
             /\ reviewed
                   => /\ last'.row = last'.dtx_record
                      /\ manual_review_queue' =
                            Append(manual_review_queue,
                                   [dtx_record |-> last'.dtx_record,
                                    match_result |-> match_result])
             /\ ~reviewed => manual_review_queue' = manual_review_queue
      ]_vars

\* a batch has queued a record for review and then updated another one
C10_Witness ==
    /\ Len(manual_review_queue) = 1
    /\ manual_review_queue[1].dtx_record.pms_id = <<>>
    /\ last.result.match_found
    /\ ~last.result.requires_manual_review
    /\ last.row # last.dtx_record
    /\ last.row.pms_id = << "1" >>

(***************************************************************************)
(* Properties of the confidence score and of the review flag               *)
(***************************************************************************)
\* C11: every match returned by a matcher constructed with the acceptance
\* threshold t has requires_manual_review exactly when its confidence score
\* is strictly below t.
C11_ReviewIffBelowThreshold ==
    (last.call = "returned" /\ last.result.match_found)
    => (last.result.requires_manual_review
           <=> last.result.confidence_score < confidence_threshold)

\* the MatchResult the latest execute of a strategy class returned
executed(match_type) ==
    /\ pure_call.function # "none"
    /\ pure_call.result # <<>>
    /\ pure_call.result[1].match_type = match_type

\* C12: every match of type FLIPPED_FUZZY_DOB or PARTIAL_FUZZY_DOB has
\* requires_manual_review = true, whatever correction flags it carries.
C12_FlippedAndPartialFuzzyAreReviewed ==
    /\ (executed("FLIPPED_FUZZY_DOB") \/ executed("PARTIAL_FUZZY_DOB"))
          => pure_call.result[1].requires_manual_review
    /\ (returned("FLIPPED_FUZZY_DOB") \/ returned("PARTIAL_FUZZY_DOB"))
          => last.result.requires_manual_review

\* the flipped strategy has returned a match for a reference record whose
\* gender the loader corrected, with the date correction flag set
C12_Witness ==
    /\ executed("FLIPPED_FUZZY_DOB")
    /\ pure_call.result[1].is_date_correction
    /\ pure_call.result[1].is_pms_gender_error

\* the base confidence of a match type: the confidence of its strategy
base_confidence(match_type) ==
    LET i == CHOOSE i \in 1..Len(strategies) : strategies[i].name = match_type
    IN strategies[i].confidence

\* the base confidence of a result plus the deltas of the flags set on it,
\* clamped to [0, 1], in hundredths
confidence_with_deltas(result) ==
    LET delta(flag, d) == IF flag THEN d ELSE 0
        sum == base_confidence(result.match_type)
               + delta(result.is_gender_mismatch, -5)
               + delta(result.is_date_correction, -3)
               + delta(result.is_name_flip, -2)
               + delta(result.is_partial_match, -10)
               + delta(result.is_pms_gender_error, 2)
    IN IF sum > 100 THEN 100 ELSE IF sum < 0 THEN 0 ELSE sum

\* C13: the confidence score of every match match_patient returns is the
\* base confidence of its match type plus the sum of the deltas of the
\* correction flags set on the result (gender_mismatch -0.05,
\* date_correction -0.03, name_flip -0.02, partial_match -0.10,
\* reference_gender_error +0.02), clamped to [0, 1].
C13_ScoreIsBasePlusDeltas ==
    (last.call = "returned" /\ last.result.match_found)
    => last.result.confidence_score = confidence_with_deltas(last.result)

\* the correction types whose flag is set in the latest call of
\* calculate_adjusted_confidence
present ==
    { t \in DOMAIN pure_call.args[2] : pure_call.args[2][t] }

\* C14: for a base confidence in [0, 1], calculate_adjusted_confidence with
\* any subset of {gender_mismatch, date_correction, name_flip,
\* partial_match} gives a result not greater than the base, with tax-id
\* cross-validation alone a result not smaller than the base, and always a
\* result in [0, 1].
C14_AdjustmentIsMonotoneAndBounded ==
    pure_call.function = "calculate_adjusted_confidence"
    => /\ present \subseteq {"gender_mismatch", "date_correction", "name_flip",
                             "partial_match"}
             => pure_call.result <= pure_call.args[1]
       /\ present = {"codice_fiscale_validation"}
             => pure_call.result >= pure_call.args[1]
       /\ pure_call.result \in 0..100

\* the four reducing corrections applied to a base of 0.72 give 0.52
C14_Witness ==
    /\ pure_call.function = "calculate_adjusted_confidence"
    /\ present = {"gender_mismatch", "date_correction", "name_flip",
                  "partial_match"}
    /\ pure_call.args[1] = 72
    /\ pure_call.result = 52

(***************************************************************************)
(* Properties of the index                                                 *)
(***************************************************************************)
\* the number of separators of a key: one in a name_only or
\* flipped_name_only key, two in a loose or flipped_loose key, three in an
\* exact or flipped_exact key
separators(key) ==
    Cardinality({ i \in 1..Len(key) : key[i] = "|" })

\* C15: while the index is built, an exact, loose, flipped_exact or
\* flipped_loose key keeps exactly the first record inserted under it, a
\* later record with the same key is not stored under it, and a name_only
\* or flipped_name_only key keeps all the records inserted under it in
\* insertion order.
C15_FirstSeenOrAccumulate ==
    [][ rows_read' = rows_read + 1
        => \A key \in DOMAIN pms_lookup' :
              IF separators(key) >= 2
              THEN IF key \in DOMAIN pms_lookup
                   THEN pms_lookup'[key] = pms_lookup[key]
                   ELSE Len(pms_lookup'[key]) = 1
              ELSE key \in DOMAIN pms_lookup
                      => is_prefix(pms_lookup[key], pms_lookup'[key]) ]_vars

\* the predicate of the fuzzy-date strategy on a candidate of a hand-built
\* index: the same gender and a date of birth of similarity at least 0.80
satisfies_fuzzy_date(dtx_record, candidate) ==
    /\ normalize_gender(get(candidate, "sex"))
          = normalize_gender(get(dtx_record, "sex"))
    /\ calculate_date_similarity(get(dtx_record, "dob"), get(candidate, "dob"))
          >= threshold

\* C16: when several records are stored under the key of a multi-candidate
\* strategy, the match returned is the first candidate in insertion order
\* that satisfies the predicate of the strategy; earlier candidates that
\* fail it are skipped.
C16_FirstSatisfyingCandidateIsReturned ==
    LET key == keys_of(last.dtx_record).name_only IN
    ( /\ returned("EXACT_FUZZY_DOB")
      /\ Len(pms_lookup[key]) > 1 )
    => \E i \in 1..Len(pms_lookup[key]) :
          /\ satisfies_fuzzy_date(last.dtx_record, pms_lookup[key][i])
          /\ \A j \in 1..(i - 1) :
                ~satisfies_fuzzy_date(last.dtx_record, pms_lookup[key][j])
          /\ last.result.pms_data = << PatientRecord(pms_lookup[key][i]) >>


(***************************************************************************)
(* Properties of the gender correction of the loader                       *)
(***************************************************************************)
\* the tax identifier of the row of the reference file encodes a gender, and
\* it is not the gender the row declares
gender_contradicted(row) ==
    LET cf_gender == extract_gender_from_codice_fiscale(strip(row.ssn))
    IN /\ cf_gender # None
       /\ normalize_gender(strip(row.gender)) # cf_gender

\* the incoming record carries the gender of the tax identifier of the row
\* and its normalized names and date of birth
carries_corrected(dtx_record, row) ==
    /\ normalize_string(get(dtx_record, "family_name"))
          = normalize_string(strip(row.last_name))
    /\ normalize_string(get(dtx_record, "given_name"))
          = normalize_string(strip(row.first_name))
    /\ normalize_date(get(dtx_record, "dob")) = normalize_date(strip(row.dob))
    /\ normalize_gender(get(dtx_record, "sex"))
          = extract_gender_from_codice_fiscale(strip(row.ssn))

\* the row is in the index under the exact key of the gender of its tax
\* identifier, with that gender and with the error flag set
indexed_corrected(row) ==
    LET cf_gender == extract_gender_from_codice_fiscale(strip(row.ssn))
        key == create_exact_match_key(strip(row.last_name), strip(row.first_name),
                                      cf_gender, strip(row.dob))
    IN /\ key \in DOMAIN pms_lookup
       /\ \E i \in 1..Len(pms_lookup[key]) :
             /\ pms_lookup[key][i].custom_identifier = strip(row.custom_identifier)
             /\ pms_lookup[key][i].gender = cf_gender
             /\ pms_lookup[key][i].is_pms_gender_error

\* C17: a loaded row of the reference file whose tax identifier encodes a
\* gender other than the declared one is indexed under the gender of the tax
\* identifier with reference_gender_error set, and an incoming record with
\* that gender and the same normalized names and date of birth is returned
\* as a GOLD_STANDARD match
C17_CorrectedGenderIsGoldStandard ==
    \A row \in PmsRows :
       ( /\ gender_contradicted(row)
         /\ \E r \in reference_records :
               r.custom_identifier = strip(row.custom_identifier) )
       => /\ indexed_corrected(row)
          /\ ( last.call # "none" /\ carries_corrected(last.dtx_record, row) )
                => returned("GOLD_STANDARD")


(***************************************************************************)
(* Properties of the session statistics                                    *)
(***************************************************************************)
\* the three outcome counters of the statistics
outcome_counters ==
    { "auto_matched", "manual_review_required", "no_matches" }

\* exactly one of the outcome counters of after is one above its value in
\* before, and the other two are the same
one_outcome_counted(before, after) ==
    \E c \in outcome_counters :
       /\ after[c] = before[c] + 1
       /\ \A d \in outcome_counters \ {c} : after[d] = before[d]

\* C18: total_processed is the sum of auto_matched, manual_review_required
\* and no_matches; every call of match_patient adds one to total_processed
\* and to exactly one of these three counters, and between two resets no
\* other step changes the statistics, so that total_processed is the number
\* of calls since the last reset
C18_TotalIsCallsAndSumOfOutcomes ==
    /\ [](session_stats.total_processed
             = session_stats.auto_matched
               + session_stats.manual_review_required
               + session_stats.no_matches)
    /\ [][IF rows_processed' = rows_processed + 1
          THEN /\ session_stats'.total_processed
                     = session_stats.total_processed + 1
               /\ one_outcome_counted(session_stats, session_stats')
          ELSE \/ session_stats' = session_stats
               \/ session_stats' = SessionStatistics]_vars


\* the bucket table: the least score of every bucket but NO_MATCH, in
\* hundredths
bucket_table ==
    << << 100, "GOLD_STANDARD" >>, << 95, "HIGH_CONFIDENCE" >>,
       << 80, "MODERATE_CONFIDENCE" >>, << 70, "ACCEPTABLE_CONFIDENCE" >>,
       << 50, "MANUAL_REVIEW" >> >>

\* the bucket a score falls in under the table
bucket_of(score) ==
    IF \E i \in 1..Len(bucket_table) : score >= bucket_table[i][1]
    THEN bucket_table[CHOOSE i \in 1..Len(bucket_table) :
                         /\ score >= bucket_table[i][1]
                         /\ \A j \in 1..(i - 1) : score < bucket_table[j][1]][2]
    ELSE "NO_MATCH"

\* the counter of the statistics that counts the results of a bucket; the
\* statistics have none for MANUAL_REVIEW
bucket_counter ==
    [GOLD_STANDARD |-> "gold_standard_matches",
     HIGH_CONFIDENCE |-> "high_confidence_matches",
     MODERATE_CONFIDENCE |-> "moderate_confidence_matches",
     ACCEPTABLE_CONFIDENCE |-> "acceptable_confidence_matches",
     NO_MATCH |-> "no_matches"]

C20_SnapshotIsNotChanged ==
    snapshot.taken => snapshot.now = snapshot.at


(***************************************************************************)
(* Properties of match_patient as a function of the record and the index   *)
(***************************************************************************)
\* the outcome of the first call of a session for the record on the index
first_call(dtx_record, lookup) ==
    match_patient(dtx_record, lookup, SessionStatistics)

called_function(f) ==
    /\ pure_call.function # "none"
    /\ pure_call.function \in { f, "patient_info_updater." \o f }

\* characters 10-11 of the identifier are two digits that form a number
\* between low and high
day_between(ssn, low, high) ==
    /\ Len(ssn) >= 11
    /\ isdigit(SubSeq(ssn, 10, 11))
    /\ low <= int(SubSeq(ssn, 10, 11))
    /\ int(SubSeq(ssn, 10, 11)) <= high

\* C22: extract_gender_from_codice_fiscale gives MALE exactly for the
\* identifiers of 11 characters at least whose characters 10-11 form a
\* number in 01-31, FEMALE exactly for those where they form a number in
\* 41-71, and the undeterminable result for every other identifier
C22_GenderOfDayField ==
    called_function("extract_gender_from_codice_fiscale")
    => pure_call.result
          = IF day_between(pure_call.args[1], 1, 31) THEN MALE
            ELSE IF day_between(pure_call.args[1], 41, 71) THEN FEMALE
            ELSE None


\* C23: is_codice_fiscale_gender_consistent is true exactly when the gender
\* of the identifier is undeterminable or is the gender the declared value
\* denotes, M and MALE denoting the same gender, and F and FEMALE
C23_ConsistentIffUndeterminableOrSameGender ==
    called_function("is_codice_fiscale_gender_consistent")
    => pure_call.result
          = ( \/ extract_gender_from_codice_fiscale(pure_call.args[1]) = None
              \/ extract_gender_from_codice_fiscale(pure_call.args[1])
                    = normalize_gender(pure_call.args[2]) )


(***************************************************************************)
(* Properties of the date functions                                        *)
(***************************************************************************)
\* the normalized date without its hyphens is exactly 8 digits
eight_digits(date_str) ==
    LET digits == SelectSeq(normalize_date(date_str), LAMBDA c : c # "-")
    IN Len(digits) = 8 /\ isdigit(digits)

\* C24: calculate_date_similarity gives the same for the two orders of its
\* arguments, 1.0 for a date string and itself, and 0.0 for two date
\* strings whose normalized dates differ when one of them is not exactly
\* 8 digits
C24_SimilarityIsSymmetricAndReflexive ==
    called_function("calculate_date_similarity")
    => /\ pure_call.result
             = calculate_date_similarity(pure_call.args[2], pure_call.args[1])
       /\ pure_call.args[1] = pure_call.args[2] => pure_call.result = 200
       /\ ( /\ normalize_date(pure_call.args[1]) # normalize_date(pure_call.args[2])
            /\ ~ ( eight_digits(pure_call.args[1])
                   /\ eight_digits(pure_call.args[2]) ) )
             => pure_call.result = 0


\* C25: is_fuzzy_date_match with its default arguments, as the matcher
\* calls it, is true exactly when the weighted positional digit similarity
\* of the two normalized dates is 0.80 at least
C25_FuzzyIffSimilarityAtLeastThreshold ==
    called_function("is_fuzzy_date_match")
    => pure_call.result
          = (calculate_date_similarity(pure_call.args[1], pure_call.args[2])
                >= threshold)


(***************************************************************************)
(* Properties of the normalizers                                           *)
(***************************************************************************)
\* the letter a letter with a diacritic is written over
without_diacritic(c) ==
    IF c = "é" THEN "e" ELSE c

\* the name without what normalization is to ignore: letter case,
\* diacritics, whitespace and apostrophes
folded(s) ==
    LET kept == SelectSeq(s, LAMBDA c : ~isspace(c) /\ c # "'")
    IN lower([i \in 1..Len(kept) |-> without_diacritic(kept[i])])

\* the function of the name f applied to s
applied(f, s) ==
    IF f = "normalize_string" THEN normalize_string(s)
    ELSE utils1_normalize_string(s)

\* C26: normalize_string gives for its own result that result again, and
\* gives the same result for two names that differ only in letter case,
\* diacritics, whitespace or apostrophes
C26_NormalizeStringIsIdempotentAndInsensitive ==
    pure_call.function
       \in { "normalize_string", "dtxstudio_patient_info1.utils.normalize_string" }
    => /\ applied(pure_call.function, pure_call.result) = pure_call.result
       /\ \A s \in NameStrings :
             folded(s) = folded(pure_call.args[1])
             => applied(pure_call.function, s) = pure_call.result


\* the four formats in the order YYYY-MM-DD, MM/DD/YYYY, DD/MM/YYYY,
\* YYYY/MM/DD
formats_in_order ==
    << [sep |-> "-", fields |-> << "Y", "m", "d" >>],
       [sep |-> "/", fields |-> << "m", "d", "Y" >>],
       [sep |-> "/", fields |-> << "d", "m", "Y" >>],
       [sep |-> "/", fields |-> << "Y", "m", "d" >>] >>

\* the ISO form YYYY-MM-DD of a date
iso_form(dt) ==
    zfill(dt[1], 4) \o << "-" >> \o zfill(dt[2], 2) \o << "-" >> \o zfill(dt[3], 2)

\* the formats of formats_in_order that parse the string
parsing(date_str) ==
    { i \in 1..Len(formats_in_order) :
         strptime(date_str, formats_in_order[i]) # <<>> }

\* C27: normalize_date gives the ISO form of the date the first of the four
\* formats that parses the string reads, and the string itself when none
\* parses it
C27_FirstFormatThatParses ==
    called_function("normalize_date")
    => pure_call.result
          = IF parsing(pure_call.args[1]) = {} THEN pure_call.args[1]
            ELSE iso_form(strptime(pure_call.args[1],
                    formats_in_order[CHOOSE i \in parsing(pure_call.args[1]) :
                        \A j \in parsing(pure_call.args[1]) : i <= j]))


C29_GenderErrorIsCarriedAndCounted ==
    [][( /\ rows_processed' = rows_processed + 1
         /\ last'.frame.pms_data # <<>>
         /\ last'.frame.pms_data[1].is_pms_gender_error )
       => /\ last'.call = "returned"
          /\ last'.result.match_found
          /\ last'.result.is_pms_gender_error
          /\ session_stats'.pms_gender_errors
                = session_stats.pms_gender_errors + 1]_vars


(***************************************************************************)
(* Properties of the keys                                                  *)
(***************************************************************************)
\* the normalized attributes the exact key is built from
normalized_attributes(record) ==
    << normalize_string(record.family_name), normalize_string(record.given_name),
       normalize_gender(record.sex), normalize_date(record.dob) >>

\* the classes of keys the forward strategies look up
key_classes ==
    { "exact", "loose", "name_only" }

\* C30: a record has the exact key of another record only if the
\* normalized family name, given name, sex and date of birth of the two are
\* equal, and its key of one of the classes exact, loose and name_only is
\* not the key of another of these classes of any record
C30_KeysAreInjectiveAndClassesDisjoint ==
    called_function("create_composite_keys")
    => \A record \in KeyRecords :
          /\ keys_of(record).exact = pure_call.result.exact
                => normalized_attributes(record)
                      = normalized_attributes(pure_call.args[1])
          /\ \A c \in key_classes, d \in key_classes :
                c # d => keys_of(record)[d] # pure_call.result[c]

====
